---- MODULE Spec2Model ----
(***************************************************************************)
(* A model of rss_digest.py: the keyword tagger (normalize_text,           *)
(* KEYWORD_PATTERNS, tag_keywords), the feed aggregator                    *)
(* (fetch_rss_entries), the digest pipeline (process_rss_feeds), the two   *)
(* st.cache_data(ttl=3600) layers around them and the button handler that  *)
(* calls the pipeline with the sidebar's selections.                       *)
(*                                                                         *)
(* Text is a sequence of one-character strings, so that lowercasing,       *)
(* punctuation stripping, escaping and word-boundary matching are computed *)
(* character by character, as the code computes them.                      *)
(***************************************************************************)
EXTENDS Integers, Sequences, FiniteSets, TLC

(***************************************************************************)
(* Bounds of the model.                                                    *)
(***************************************************************************)
\* Longest keyword selection (in any order) the single-click runs draw.
MaxSel == 2
\* Most entries one feed of a drawn upstream holds.
MaxEntries == 3
\* Most button presses in one session.
MaxClicks == 3
\* The clock stops advancing here (seconds).
MaxTime == 4800

\* The steps the clock advances by: two thirds of the window, and a whole window.
Ticks == {2400, 3600}

(***************************************************************************)
(* Characters.                                                             *)
(***************************************************************************)
UpperLetters == <<"A","B","C","D","E","F","G","H","I","J","K","L","M","N","O","P","Q","R","S","T","U","V","W","X","Y","Z">>
LowerLetters == <<"a","b","c","d","e","f","g","h","i","j","k","l","m","n","o","p","q","r","s","t","u","v","w","x","y","z">>
Digits == <<"0","1","2","3","4","5","6","7","8","9">>

Range(s) == {s[i] : i \in DOMAIN s}

\* string.punctuation. The backquote, its 32nd character, cannot be written
\* in a TLA+ string; no text of the model holds it.
punctuation == {"!","\"","#","$","%","&","'","(",")","*","+",",","-",".","/",":",";","<","=",">","?","@","[","\\","]","^","_","{","|","}","~"}

\* The characters \w matches.
WordChars == Range(UpperLetters) \cup Range(LowerLetters) \cup Range(Digits) \cup {"_"}

IsWordChar(c) == c \in WordChars

\* str.lower() of one character.
LowerOf == [c \in Range(UpperLetters) |->
               LowerLetters[CHOOSE i \in DOMAIN UpperLetters : UpperLetters[i] = c]]

CharLower(c) == IF c \in DOMAIN LowerOf THEN LowerOf[c] ELSE c

\* str.lower()
str_lower(s) == [i \in 1..Len(s) |-> CharLower(s[i])]

\* str.translate(str.maketrans('', '', string.punctuation))
strip_punctuation(s) == SelectSeq(s, LAMBDA c : c \notin punctuation)

\* normalize_text: lowercase, then remove punctuation.
normalize_text(text) == strip_punctuation(str_lower(text))

(***************************************************************************)
(* Regular expressions: re.escape, re.compile and Pattern.search, for the  *)
(* patterns the program builds (\b, escaped literal, \b).                  *)
(***************************************************************************)
\* The characters re.escape puts a backslash before.
re_special == {"(",")","[","]","{","}","?","*","+","-","|","^","$","\\",".","&","~","#"," "}

RECURSIVE re_escape(_)
re_escape(s) ==
    IF s = <<>> THEN <<>>
    ELSE (IF Head(s) \in re_special THEN <<"\\", Head(s)>> ELSE <<Head(s)>>)
         \o re_escape(Tail(s))

\* r'\b'
WordBoundary == <<"\\", "b">>

\* re.compile: the source text as a sequence of tokens, a backslash and "b"
\* being the word-boundary assertion, a backslash and another character that
\* character, and any other character itself.
RECURSIVE re_compile(_)
re_compile(src) ==
    IF src = <<>> THEN <<>>
    ELSE IF Head(src) = "\\" /\ Len(src) >= 2
         THEN (IF src[2] = "b"
               THEN <<[kind |-> "boundary", ch |-> "b"]>>
               ELSE <<[kind |-> "literal", ch |-> src[2]]>>)
              \o re_compile(SubSeq(src, 3, Len(src)))
         ELSE <<[kind |-> "literal", ch |-> Head(src)]>> \o re_compile(Tail(src))

\* \b after the first p characters of text: exactly one of the two
\* neighbours is a word character (the ends of the text are not).
AtWordBoundary(text, p) ==
    LET before == p >= 1 /\ IsWordChar(text[p])
        after  == p < Len(text) /\ IsWordChar(text[p + 1])
    IN before # after

\* The tokens from the k-th on match text after its first p characters.
RECURSIVE MatchFrom(_, _, _, _)
MatchFrom(pattern, k, text, p) ==
    IF k > Len(pattern) THEN TRUE
    ELSE IF pattern[k].kind = "boundary"
         THEN AtWordBoundary(text, p) /\ MatchFrom(pattern, k + 1, text, p)
         ELSE /\ p < Len(text)
              /\ text[p + 1] = pattern[k].ch
              /\ MatchFrom(pattern, k + 1, text, p + 1)

\* Pattern.search: a match starting anywhere.
pattern_search(pattern, text) == \E p \in 0..Len(text) : MatchFrom(pattern, 1, text, p)

(***************************************************************************)
(* The configured lists.                                                   *)
(***************************************************************************)
kw_Sonic == <<"S","o","n","i","c">>
kw_Arbys == <<"A","r","b","y","'","s">>
kw_McD == <<"M","c","D">>
kw_TacoBell == <<"T","a","c","o"," ","B","e","l","l">>
kw_Spicy == <<"S","p","i","c","y">>
kw_ZeroWaste == <<"Z","e","r","o","-","w","a","s","t","e">>
kw_GenZ == <<"G","e","n","Z">>

\* KEYWORDS, cut to eight of its sixty entries in their configured order:
\* a plain word, one with an apostrophe, a short acronym, a two-word phrase,
\* a hyphenated word, and "Spicy" at both of its places.
KEYWORDS == <<kw_Sonic, kw_Arbys, kw_McD, kw_TacoBell, kw_Spicy, kw_ZeroWaste, kw_Spicy, kw_GenZ>>

\* RSS_FEEDS, cut to the first two of its eight entries.
RSS_FEEDS == <<"https://www.adweek.com/feed/", "https://rss.nytimes.com/services/xml/rss/nyt/Business.xml">>

\* re.compile(r'\b' + re.escape(kw.lower()) + r'\b')
keyword_pattern(kw) == re_compile(WordBoundary \o re_escape(str_lower(kw)) \o WordBoundary)

KEYWORD_PATTERNS == [i \in 1..Len(KEYWORDS) |-> keyword_pattern(KEYWORDS[i])]

(***************************************************************************)
(* tag_keywords                                                            *)
(***************************************************************************)
Min(a, b) == IF a <= b THEN a ELSE b

\* The loop over zip(keyword_patterns, original_keywords), from pair k on.
RECURSIVE tag_loop(_, _, _, _)
tag_loop(content, keyword_patterns, original_keywords, k) ==
    IF k > Min(Len(keyword_patterns), Len(original_keywords)) THEN <<>>
    ELSE (IF pattern_search(keyword_patterns[k], content)
          THEN <<original_keywords[k]>>
          ELSE <<>>)
         \o tag_loop(content, keyword_patterns, original_keywords, k + 1)

tag_keywords(article, keyword_patterns, original_keywords) ==
    LET content == normalize_text(article.title \o <<" ">> \o article.summary)
    IN tag_loop(content, keyword_patterns, original_keywords, 1)

(***************************************************************************)
(* Dates: dateutil's parser on the texts the feeds of the model hold, and  *)
(* strftime('%Y-%m-%d').                                                   *)
(***************************************************************************)
DigitValue == [c \in Range(Digits) |-> (CHOOSE i \in DOMAIN Digits : Digits[i] = c) - 1]

IsDigit(c) == c \in DOMAIN DigitValue

DigitVal(c) == DigitValue[c]

NoDate == [ok |-> FALSE, year |-> 0, month |-> 0, day |-> 0]

\* date_parser.parse, for a text that is year-month-day in digits, alone or
\* followed by "T" and a time of day; it raises (ok is FALSE) on the empty
\* text and on text that holds no date. Other forms dateutil reads are not
\* among the texts of the model.
date_parser_parse(text) ==
    IF /\ Len(text) >= 10
       /\ \A i \in {1, 2, 3, 4, 6, 7, 9, 10} : IsDigit(text[i])
       /\ text[5] = "-" /\ text[8] = "-"
       /\ (Len(text) = 10 \/ text[11] = "T")
    THEN LET y == 1000 * DigitVal(text[1]) + 100 * DigitVal(text[2])
                  + 10 * DigitVal(text[3]) + DigitVal(text[4])
             m == 10 * DigitVal(text[6]) + DigitVal(text[7])
             d == 10 * DigitVal(text[9]) + DigitVal(text[10])
         IN IF m \in 1..12 /\ d \in 1..31
            THEN [ok |-> TRUE, year |-> y, month |-> m, day |-> d]
            ELSE NoDate
    ELSE NoDate

\* n in w digits, zero-padded.
RECURSIVE ZeroPad(_, _)
ZeroPad(n, w) == IF w = 0 THEN <<>> ELSE ZeroPad(n \div 10, w - 1) \o <<Digits[(n % 10) + 1]>>

\* strftime('%Y-%m-%d')
strftime(date) == ZeroPad(date.year, 4) \o <<"-">> \o ZeroPad(date.month, 2) \o <<"-">> \o ZeroPad(date.day, 2)

UnknownDate == <<"U","n","k","n","o","w","n"," ","D","a","t","e">>

(***************************************************************************)
(* State.                                                                  *)
(***************************************************************************)
VARIABLES
    source,             \* what feedparser.parse finds at each feed URL: its entries
    flaky,              \* the feeds whose retrieval can fail
    now,                \* the clock st.cache_data reads (seconds)
    selected_keywords,  \* the keyword multiselect's value
    selected_feeds,     \* the feed multiselect's value
    fetch_cache,        \* st.cache_data's entries for fetch_rss_entries
    process_cache,      \* st.cache_data's entries for process_rss_feeds
    call,               \* the last button press: its arguments and what it returned
    journal,            \* per argument tuple, the last press and the last computed one
    clicks              \* button presses so far

vars == <<source, flaky, now, selected_keywords, selected_feeds, fetch_cache, process_cache, call, journal, clicks>>

(***************************************************************************)
(* fetch_rss_entries                                                       *)
(***************************************************************************)
\* entry.get(key, "")
entry_get(entry, key) == IF key \in entry.keys THEN entry[key] ELSE <<>>

\* entry.title and entry.link raise when the entry has no such key.
entry_raises(entry) == "title" \notin entry.keys \/ "link" \notin entry.keys

article_info(entry) ==
    [title     |-> entry.title,
     link      |-> entry.link,
     summary   |-> entry_get(entry, "summary"),
     published |-> entry_get(entry, "published")]

\* A loop that keeps a feed's entries only when none of them raises.
extract_entries_all_or_nothing(entries) ==
    IF \E i \in DOMAIN entries : entry_raises(entries[i]) THEN <<>>
    ELSE [i \in 1..Len(entries) |-> article_info(entries[i])]

\* The loop over feed.entries: it appends until an entry raises, and the
\* exception leaves the loop.
RECURSIVE extract_entries(_)
extract_entries(entries) ==
    IF entries = <<>> THEN <<>>
    ELSE IF entry_raises(Head(entries)) THEN <<>>
    ELSE <<article_info(Head(entries))>> \o extract_entries(Tail(entries))

\* One pass of the try block: feedparser.parse raises for a failing feed,
\* and the except clause reports and goes on with nothing appended.
fetch_feed(feed_url, failing) ==
    IF feed_url \in failing THEN <<>> ELSE extract_entries(source[feed_url])

\* An aggregation with the try block around the whole loop: the first
\* failing feed ends it.
RECURSIVE fetch_rss_entries_abort(_, _)
fetch_rss_entries_abort(feeds, failing) ==
    IF feeds = <<>> THEN <<>>
    ELSE IF Head(feeds) \in failing THEN <<>>
    ELSE fetch_feed(Head(feeds), failing) \o fetch_rss_entries_abort(Tail(feeds), failing)

RECURSIVE fetch_rss_entries(_, _)
fetch_rss_entries(feeds, failing) ==
    IF feeds = <<>> THEN <<>>
    ELSE fetch_feed(Head(feeds), failing) \o fetch_rss_entries(Tail(feeds), failing)

(***************************************************************************)
(* process_rss_feeds                                                       *)
(***************************************************************************)
\* sep.join(parts)
RECURSIVE join(_, _)
join(sep, parts) ==
    IF parts = <<>> THEN <<>>
    ELSE IF Len(parts) = 1 THEN parts[1]
    ELSE parts[1] \o sep \o join(sep, Tail(parts))

\* A date column with no fallback: the text as it came when it does not parse.
published_date_no_fallback(article) ==
    LET date == date_parser_parse(article.published)
    IN IF date.ok THEN strftime(date) ELSE article.published

\* The try/except around date_parser.parse(...).strftime(...)
published_date(article) ==
    LET date == date_parser_parse(article.published)
    IN IF date.ok THEN strftime(date) ELSE UnknownDate

result_row(article, tags) ==
    [Title    |-> article.title,
     Date     |-> published_date(article),
     Link     |-> article.link,
     Keywords |-> join(<<",", " ">>, tags),
     Summary  |-> article.summary]

\* A loop with no "if tags": a row for every article.
RECURSIVE process_entries_keep_all(_, _, _)
process_entries_keep_all(entries, selected_keyword_patterns, original_keywords) ==
    IF entries = <<>> THEN <<>>
    ELSE <<result_row(Head(entries),
                      tag_keywords(Head(entries), selected_keyword_patterns, original_keywords))>>
         \o process_entries_keep_all(Tail(entries), selected_keyword_patterns, original_keywords)

\* The loop over entries: a row for each article with tags.
RECURSIVE process_entries(_, _, _)
process_entries(entries, selected_keyword_patterns, original_keywords) ==
    IF entries = <<>> THEN <<>>
    ELSE LET tags == tag_keywords(Head(entries), selected_keyword_patterns, original_keywords)
         IN (IF tags # <<>> THEN <<result_row(Head(entries), tags)>> ELSE <<>>)
            \o process_entries(Tail(entries), selected_keyword_patterns, original_keywords)

(***************************************************************************)
(* st.cache_data(ttl=3600): an entry per argument tuple, valid while it is *)
(* younger than the ttl. asof is not part of the cache: it records when    *)
(* the feed entries a value was computed from were fetched.                *)
(***************************************************************************)
FETCH_TTL == 3600
PROCESS_TTL == 3600

\* A ttl read as milliseconds.
cache_valid_ms(entry, ttl) == now - entry.stored < ttl \div 1000

cache_valid(entry, ttl) == now - entry.stored < ttl

cache_get(cache, key, ttl) == {e \in cache : e.key = key /\ cache_valid(e, ttl)}

\* Storing drops the entries that have expired, as the TTL cache does.
cache_put(cache, key, value, asof, ttl) ==
    {e \in cache : e.key # key /\ cache_valid(e, ttl)}
    \cup {[key |-> key, value |-> value, stored |-> now, asof |-> asof]}

\* fetch_rss_entries behind its cache. fetched lists the feeds
\* feedparser.parse was called on.
cached_fetch_rss_entries(feeds, failing) ==
    LET hits == cache_get(fetch_cache, feeds, FETCH_TTL)
    IN IF hits # {}
       THEN LET e == CHOOSE e \in hits : TRUE
            IN [value |-> e.value, cache |-> fetch_cache, fetched |-> <<>>, asof |-> e.asof]
       ELSE LET value == fetch_rss_entries(feeds, failing)
            IN [value |-> value, cache |-> cache_put(fetch_cache, feeds, value, now, FETCH_TTL),
                fetched |-> feeds, asof |-> now]

\* process_rss_feeds behind its cache.
cached_process_rss_feeds(feeds, selected_keyword_patterns, keywords, failing) ==
    LET key == <<feeds, selected_keyword_patterns, keywords>>
        hits == cache_get(process_cache, key, PROCESS_TTL)
    IN IF hits # {}
       THEN LET e == CHOOSE e \in hits : TRUE
            IN [value |-> e.value, hit |-> TRUE, fetched |-> <<>>, asof |-> e.asof,
                entries |-> <<>>, fetch_cache |-> fetch_cache, process_cache |-> process_cache]
       ELSE LET got == cached_fetch_rss_entries(feeds, failing)
                value == process_entries(got.value, selected_keyword_patterns, keywords)
            IN [value |-> value, hit |-> FALSE, fetched |-> got.fetched, asof |-> got.asof,
                entries |-> got.value, fetch_cache |-> got.cache,
                process_cache |-> cache_put(process_cache, key, value, got.asof, PROCESS_TTL)]

(***************************************************************************)
(* The app: the two multiselects and the button.                           *)
(***************************************************************************)
InSeq(v, s) == \E i \in DOMAIN s : s[i] = v

\* [pattern for pattern, keyword in zip(KEYWORD_PATTERNS, KEYWORDS)
\*  if keyword in selected_keywords]
filter_keyword_patterns(keywords) ==
    LET kept == SelectSeq([i \in 1..Len(KEYWORDS) |-> i], LAMBDA i : InSeq(KEYWORDS[i], keywords))
    IN [j \in 1..Len(kept) |-> KEYWORD_PATTERNS[kept[j]]]

NoPrior == [lastTime |-> -1, lastResult |-> <<>>, compTime |-> -1, compResult |-> <<>>]

NoCall ==
    [made |-> FALSE, time |-> 0, feeds |-> <<>>, keywords |-> <<>>, failing |-> {},
     hit |-> FALSE, fetched |-> <<>>, entries |-> <<>>, result |-> <<>>, asof |-> 0,
     prior |-> NoPrior]

\* What the journal holds for an argument tuple.
Prior(feeds, keywords) ==
    LET found == {j \in journal : j.feeds = feeds /\ j.keywords = keywords}
    IN IF found = {} THEN NoPrior ELSE (CHOOSE j \in found : TRUE).prior

\* The button: filter the patterns, run the pipeline, show the rows.
\* failing is the set of feeds whose retrieval fails at this moment.
Click ==
    /\ clicks < MaxClicks
    /\ \E failing \in SUBSET (flaky \cap Range(selected_feeds)) :
          LET selected_keyword_patterns == filter_keyword_patterns(selected_keywords)
              r == cached_process_rss_feeds(selected_feeds, selected_keyword_patterns,
                                            selected_keywords, failing)
              before == Prior(selected_feeds, selected_keywords)
              after == [lastTime |-> now, lastResult |-> r.value,
                        compTime |-> IF r.hit THEN before.compTime ELSE now,
                        compResult |-> IF r.hit THEN before.compResult ELSE r.value]
          IN /\ fetch_cache' = r.fetch_cache
             /\ process_cache' = r.process_cache
             /\ call' = [made |-> TRUE, time |-> now, feeds |-> selected_feeds,
                         keywords |-> selected_keywords, failing |-> failing,
                         hit |-> r.hit, fetched |-> r.fetched, entries |-> r.entries,
                         result |-> r.value, asof |-> r.asof, prior |-> before]
             /\ journal' = {j \in journal : ~(j.feeds = selected_feeds /\ j.keywords = selected_keywords)}
                           \cup {[feeds |-> selected_feeds, keywords |-> selected_keywords, prior |-> after]}
    /\ clicks' = clicks + 1
    /\ UNCHANGED <<source, flaky, now, selected_keywords, selected_feeds>>

\* The selections a session moves between: the defaults and a few others.
UiKeywords == {KEYWORDS, <<kw_Sonic>>}
UiFeeds == {RSS_FEEDS, <<RSS_FEEDS[2]>>}

SelectKeywords ==
    /\ \E k \in UiKeywords \ {selected_keywords} : selected_keywords' = k
    /\ UNCHANGED <<source, flaky, now, selected_feeds, fetch_cache, process_cache, call, journal, clicks>>

SelectFeeds ==
    /\ \E f \in UiFeeds \ {selected_feeds} : selected_feeds' = f
    /\ UNCHANGED <<source, flaky, now, selected_keywords, fetch_cache, process_cache, call, journal, clicks>>

\* Time passes.
Advance ==
    /\ \E d \in Ticks : now + d <= MaxTime /\ now' = now + d
    /\ UNCHANGED <<source, flaky, selected_keywords, selected_feeds, fetch_cache, process_cache, call, journal, clicks>>

(***************************************************************************)
(* Upstream content.                                                       *)
(***************************************************************************)
AllKeys == {"title", "link", "summary", "published"}

Entry(keys, title, link, summary, published) ==
    [keys |-> keys, title |-> title, link |-> link, summary |-> summary, published |-> published]

title_SonicDeal == <<"S","o","n","i","c"," ","d","e","a","l">>
title_Supersonic == <<"S","u","p","e","r","s","o","n","i","c">>
title_SpicySonic == <<"S","p","i","c","y"," ","S","o","n","i","c">>
title_McDAnnounces == <<"M","c","D"," ","a","n","n","o","u","n","c","e","s">>
title_TacoBellMenu == <<"t","a","c","o"," ","b","e","l","l"," ","m","e","n","u">>
title_GenZ == <<"G","e","n","Z">>
title_Arbys == <<"A","r","b","y","'","s">>
title_ArbysUpper == <<"A","R","B","Y","'","S"," ","d","e","a","l">>
title_McDonalds == <<"M","c","D","o","n","a","l","d","'","s">>
title_ZeroWastePush == <<"Z","e","r","o","-","w","a","s","t","e"," ","p","u","s","h">>
title_Sonic == <<"S","o","n","i","c">>
title_SonicAndSpicy == <<"S","o","n","i","c"," ","a","n","d"," ","S","p","i","c","y">>
title_SonicsMenu == <<"S","o","n","i","c","'","s"," ","m","e","n","u">>
date_Iso == <<"2","0","2","4","-","0","3","-","0","1","T","1","0",":","0","0",":","0","0","Z">>
date_Day == <<"2","0","2","4","-","0","1","-","1","5">>
date_Bad == <<"n","o","t"," ","a"," ","d","a","t","e">>
summary_Details == <<"d","e","t","a","i","l","s"," ","h","e","r","e">>
summary_Spicy == <<"S","p","i","c","y">>

e_SonicDeal == Entry(AllKeys, title_SonicDeal, "https://example.org/1", summary_Details, date_Iso)
e_Supersonic == Entry(AllKeys, title_Supersonic, "https://example.org/2", <<>>, date_Day)
e_SpicySonic == Entry(AllKeys, title_SpicySonic, "https://example.org/3", summary_Details, date_Day)
e_McD == Entry({"title", "link", "published"}, title_McDAnnounces, "https://example.org/4", <<>>, date_Bad)
e_TacoBell == Entry({"title", "link", "summary"}, title_TacoBellMenu, "https://example.org/5", summary_Details, <<>>)
e_GenZ == Entry(AllKeys, title_GenZ, "https://example.org/6", <<>>, <<>>)
e_NoTitle == Entry({"link", "summary", "published"}, <<>>, "https://example.org/7", summary_Spicy, date_Day)
e_NoLink == Entry({"title", "summary", "published"}, title_Sonic, "", summary_Details, date_Day)

\* The upstream of a session.
DefaultSource == (RSS_FEEDS[1] :> <<e_SonicDeal, e_Supersonic>>) @@ (RSS_FEEDS[2] :> <<e_SpicySonic, e_McD>>)

(***************************************************************************)
(* A session: the app starts with the default selections and empty caches. *)
(***************************************************************************)
Init ==
    /\ source = DefaultSource
    /\ flaky = {RSS_FEEDS[1]}
    /\ now = 0
    /\ selected_keywords = KEYWORDS
    /\ selected_feeds = RSS_FEEDS
    /\ fetch_cache = {}
    /\ process_cache = {}
    /\ call = NoCall
    /\ journal = {}
    /\ clicks = 0

Next == Click \/ SelectKeywords \/ SelectFeeds \/ Advance

Spec == Init /\ [][Next]_vars

(***************************************************************************)
(* One press of the button in a fresh app, over drawn upstreams and        *)
(* selections.                                                             *)
(***************************************************************************)
SeqsUpTo(S, n) == UNION {[1..k -> S] : k \in 0..n}

\* A multiselect's values: options without repetition, in the order chosen.
Distinct(s) == \A i, j \in DOMAIN s : i # j => s[i] # s[j]

KeywordSelections == {s \in SeqsUpTo(Range(KEYWORDS), MaxSel) : Distinct(s)} \cup {KEYWORDS}

FeedSelections == {s \in SeqsUpTo(Range(RSS_FEEDS), Len(RSS_FEEDS)) : Distinct(s)}

TagTitles ==
    {title_Arbys, title_ArbysUpper, title_McDAnnounces, title_McDonalds, title_TacoBellMenu,
     title_ZeroWastePush, title_Supersonic, title_SpicySonic, title_GenZ, title_Sonic,
     title_SonicAndSpicy, title_SonicsMenu}

\* One article, any keyword selection.
InitTag ==
    /\ \E title \in TagTitles, summary \in {<<>>, summary_Spicy} :
          source = (RSS_FEEDS[1] :> <<Entry(AllKeys, title, "https://example.org/1", summary, date_Day)>>)
                   @@ (RSS_FEEDS[2] :> <<>>)
    /\ selected_feeds = RSS_FEEDS
    /\ selected_keywords \in KeywordSelections

DigestEntries == {e_SonicDeal, e_Supersonic, e_SpicySonic, e_McD, e_TacoBell, e_GenZ}

\* A sequence of well-formed entries before a second feed's entry, two
\* keyword selections.
InitDigest ==
    /\ \E first \in SeqsUpTo(DigestEntries, MaxEntries) :
          source = (RSS_FEEDS[1] :> first) @@ (RSS_FEEDS[2] :> <<e_McD>>)
    /\ selected_feeds = RSS_FEEDS
    /\ selected_keywords \in {KEYWORDS, <<kw_Sonic, kw_McD>>}

FetchEntries == {e_SonicDeal, e_NoTitle, e_NoLink}

\* Feeds with entries that lack a title or a link, any feed selection.
InitFetch ==
    /\ \E first \in SeqsUpTo(FetchEntries, MaxEntries), second \in SeqsUpTo(FetchEntries, 1) :
          source = (RSS_FEEDS[1] :> first) @@ (RSS_FEEDS[2] :> second)
    /\ selected_feeds \in FeedSelections
    /\ selected_keywords = KEYWORDS

InitOnce ==
    /\ InitTag \/ InitDigest \/ InitFetch
    /\ flaky = Range(RSS_FEEDS)
    /\ now = 0
    /\ fetch_cache = {}
    /\ process_cache = {}
    /\ call = NoCall
    /\ journal = {}
    /\ clicks = 0

ClickOnce == clicks = 0 /\ Click

SpecOnce == InitOnce /\ [][ClickOnce]_vars

(***************************************************************************)
(* Properties.                                                             *)
(***************************************************************************)
\* The entries the cold pipeline saw, and the positions of those with tags.
CallPatterns == filter_keyword_patterns(call.keywords)

TagsOf(article) == tag_keywords(article, CallPatterns, call.keywords)

KeptPositions == SelectSeq([i \in 1..Len(call.entries) |-> i], LAMBDA i : TagsOf(call.entries[i]) # <<>>)

Computed == call.made /\ ~call.hit

\* s.split(", ")
RECURSIVE split_keywords(_, _)
split_keywords(s, word) ==
    IF s = <<>> THEN <<word>>
    ELSE IF Len(s) >= 2 /\ s[1] = "," /\ s[2] = " "
         THEN <<word>> \o split_keywords(SubSeq(s, 3, Len(s)), <<>>)
         ELSE split_keywords(Tail(s), Append(word, Head(s)))

RowKeywords(row) == split_keywords(row.Keywords, <<>>)

RowContent(row) == normalize_text(row.Title \o <<" ">> \o row.Summary)

\* All the entries of a feed, as articles.
Articles(feed_url) == [i \in 1..Len(source[feed_url]) |-> article_info(source[feed_url][i])]

WellFormed(feed_url) == \A i \in DOMAIN source[feed_url] : ~entry_raises(source[feed_url][i])

\* The articles before a feed's first entry that lacks its title or link.
FirstBad(feed_url) ==
    CHOOSE i \in DOMAIN source[feed_url] :
        /\ entry_raises(source[feed_url][i])
        /\ \A j \in 1..(i - 1) : ~entry_raises(source[feed_url][j])

BeforeFirstBad(feed_url) ==
    IF WellFormed(feed_url) THEN Articles(feed_url)
    ELSE SubSeq(Articles(feed_url), 1, FirstBad(feed_url) - 1)

RECURSIVE Flatten(_)
Flatten(seqs) == IF seqs = <<>> THEN <<>> ELSE Head(seqs) \o Flatten(Tail(seqs))

\* C1: with any subset of the selected feeds failing and the other feeds'
\* entries well formed, the aggregation calls every feed and returns the
\* entries of the feeds that did not fail, in feed order and then entry order.
C1_FailureIsolation ==
    (Computed /\ \A f \in Range(call.feeds) \ call.failing : WellFormed(f))
    => /\ call.fetched = call.feeds
       /\ call.entries = Flatten([i \in 1..Len(call.feeds) |->
                                    IF call.feeds[i] \in call.failing THEN <<>>
                                    ELSE Articles(call.feeds[i])])

\* The first feed fails and the second returns its entries.
C1_Witness ==
    /\ Computed
    /\ call.feeds = RSS_FEEDS
    /\ call.failing = {RSS_FEEDS[1]}
    /\ source[RSS_FEEDS[1]] # <<>>
    /\ source[RSS_FEEDS[2]] # <<>> /\ WellFormed(RSS_FEEDS[2])
    /\ call.entries = Articles(RSS_FEEDS[2])

\* C2: every display form a row reports is a keyword whose own pattern
\* occurs in the row's normalized title and summary.
C2_PairingAligned ==
    call.made =>
        \A i \in DOMAIN call.result :
            \A kw \in Range(RowKeywords(call.result[i])) :
                pattern_search(keyword_pattern(kw), RowContent(call.result[i]))

\* C3: the rows are, in order, the aggregated entries with a non-empty tag
\* list, and no row has an empty keyword list.
C3_ZeroMatchDrop ==
    Computed =>
        /\ Len(call.result) = Len(KeptPositions)
        /\ \A j \in DOMAIN call.result :
              LET article == call.entries[KeptPositions[j]]
              IN /\ call.result[j].Title = article.title
                 /\ call.result[j].Link = article.link
                 /\ call.result[j].Summary = article.summary
                 /\ call.result[j].Keywords = join(<<",", " ">>, TagsOf(article))
                 /\ call.result[j].Keywords # <<>>

\* An entry with no match between two that match.
C3_Witness ==
    /\ Computed
    /\ Len(call.entries) >= 3
    /\ TagsOf(call.entries[1]) # <<>>
    /\ TagsOf(call.entries[2]) = <<>>
    /\ TagsOf(call.entries[3]) # <<>>
    /\ call.entries[1] # call.entries[3]
    /\ Len(call.result) = Len(call.entries) - 1

\* C4, as stated: a press with the arguments of an earlier press made less
\* than the window before fetches nothing and returns that press's result.
C4_AnyEarlierCall ==
    (call.made /\ call.prior.lastTime >= 0 /\ call.time - call.prior.lastTime < PROCESS_TTL)
    => (call.fetched = <<>> /\ call.result = call.prior.lastResult)

\* C4, amended: a press with the arguments of an earlier press that computed
\* its result (missed the pipeline cache) less than the window before fetches
\* nothing and returns that press's result.
C4_EarlierComputedCall ==
    (call.made /\ call.prior.compTime >= 0 /\ call.time - call.prior.compTime < PROCESS_TTL)
    => (call.fetched = <<>> /\ call.result = call.prior.compResult)

\* A press 2400 s after the one that computed the result.
C4_Witness ==
    /\ call.made
    /\ call.prior.compTime >= 0
    /\ call.time - call.prior.compTime = 2400
    /\ call.result # <<>>
    /\ call.hit

\* C5: what a press returns is what it would return with empty caches at
\* that moment.
C5_ColdWarmEquivalence ==
    call.made =>
        call.result = process_entries(fetch_rss_entries(call.feeds, call.failing),
                                      CallPatterns, call.keywords)

ExpectedDate(published) ==
    IF published = date_Iso THEN <<"2","0","2","4","-","0","3","-","0","1">>
    ELSE IF published = date_Day THEN <<"2","0","2","4","-","0","1","-","1","5">>
    ELSE <<"U","n","k","n","o","w","n"," ","D","a","t","e">>

\* C6: every entry with tags gets a row, whose Date is the published date as
\* YYYY-MM-DD when it parses and "Unknown Date" when it is empty, absent or
\* not a date.
C6_DateFallback ==
    Computed =>
        /\ Len(call.result) = Len(KeptPositions)
        /\ \A j \in DOMAIN call.result :
              call.result[j].Date = ExpectedDate(call.entries[KeptPositions[j]].published)

\* A row with a date that does not parse before a row with one that does.
C6_Witness ==
    /\ Computed
    /\ Len(call.result) >= 3
    /\ call.entries[KeptPositions[1]].published = date_Bad
    /\ call.result[1].Date = UnknownDate
    /\ call.entries[KeptPositions[2]].published = <<>>
    /\ call.result[2].Date = UnknownDate
    /\ call.entries[KeptPositions[3]].published = date_Iso
    /\ call.result[3].Date = <<"2","0","2","4","-","0","3","-","0","1">>

RECURSIVE IsSubsequence(_, _)
IsSubsequence(a, b) ==
    IF a = <<>> THEN TRUE
    ELSE IF b = <<>> THEN FALSE
    ELSE IF Head(a) = Head(b) THEN IsSubsequence(Tail(a), Tail(b))
    ELSE IsSubsequence(a, Tail(b))

\* C7: the keywords of every row are in the order of KEYWORDS.
C7_ConfiguredOrder ==
    call.made =>
        \A i \in DOMAIN call.result : IsSubsequence(RowKeywords(call.result[i]), KEYWORDS)

\* kw stands in text as a whole word or phrase, in any letter case.
OccursWhole(kw, text) ==
    \E p \in 0..(Len(text) - Len(kw)) :
        /\ str_lower(SubSeq(text, p + 1, p + Len(kw))) = str_lower(kw)
        /\ (p = 0 \/ ~IsWordChar(text[p]))
        /\ (p + Len(kw) = Len(text) \/ ~IsWordChar(text[p + Len(kw) + 1]))

\* kw's letters stand in text, in any letter case.
OccursAnywhere(kw, text) ==
    \E p \in 0..(Len(text) - Len(kw)) :
        str_lower(SubSeq(text, p + 1, p + Len(kw))) = str_lower(kw)

\* C8: an article is tagged with a keyword when the display form stands in
\* its title and summary as a whole word or phrase in any letter case, and
\* is not when the keyword's letters stand only inside a larger word.
C8_WholeWordTagged ==
    (Computed /\ Len(call.keywords) = 1 /\ Len(call.entries) = 1)
    => LET kw == call.keywords[1]
           text == call.entries[1].title \o <<" ">> \o call.entries[1].summary
           tagged == kw \in Range(TagsOf(call.entries[1]))
       IN /\ OccursWhole(kw, text) => tagged
          /\ (OccursAnywhere(kw, text) /\ ~OccursWhole(kw, text)) => ~tagged

\* C9: a press returns rows made from entries fetched no more than one
\* window before.
C9_StalenessBound == call.made => call.time - call.asof <= FETCH_TTL

\* C10: a feed whose i-th entry lacks its title or link gives its first i-1
\* entries and no later one; the feeds before and after it give theirs.
C10_MidFeedFailure ==
    (Computed /\ \E f \in Range(call.feeds) \ call.failing : ~WellFormed(f))
    => call.entries = Flatten([i \in 1..Len(call.feeds) |->
                                 IF call.feeds[i] \in call.failing THEN <<>>
                                 ELSE BeforeFirstBad(call.feeds[i])])

\* The first feed's second entry of three lacks its title; the second feed
\* comes after it.
C10_Witness ==
    /\ Computed
    /\ call.feeds = RSS_FEEDS
    /\ call.failing = {}
    /\ source[RSS_FEEDS[1]] = <<e_SonicDeal, e_NoTitle, e_SonicDeal>>
    /\ source[RSS_FEEDS[2]] = <<e_SonicDeal>>
    /\ call.entries = <<article_info(e_SonicDeal), article_info(e_SonicDeal)>>
====
